---- MODULE Spec2Model ----
(***************************************************************************)
(* A model of the dual-provider search engine of OpenSentinel              *)
(* (src/src/Agent/tools/_search_engine.py): the circuit breakers, the TTL  *)
(* cache, the two provider calls run in a thread pool by search_dual, and  *)
(* the deduplication and ranking of their results.                         *)
(*                                                                         *)
(* Time is in whole seconds.  Scores are in hundredths (0.9 is 90).  A URL *)
(* is a sequence of characters, so that rstrip("/") and lower() are        *)
(* computed.  A source_engine string "a+b" is the sequence <<"a", "b">>.   *)
(* None is "" for a string, NoTime for a datetime and <<>> for an object.  *)
(* The client libraries are installed: no import raises ImportError.       *)
(***************************************************************************)
EXTENDS Integers, Sequences, FiniteSets, TLC

VARIABLES
    now,        \* datetime.now(), in seconds
    breaker,    \* _tavily_breaker, _ddg_breaker: provider -> CircuitBreaker fields
    cache,      \* _search_cache._cache: key -> <<>> or <<CacheEntry>>
    heap,       \* the response dicts alive: object id -> <<>> or <<response>>
    pc,         \* caller -> where its search_dual call stands
    req,        \* caller -> the arguments of its call: [key, cfg]
    widx,       \* caller -> index in providers_to_run of the future it waits for
    wstart,     \* caller -> when that future.result(timeout) began
    rmap,       \* caller -> results_map: provider -> <<>> or <<provider result>>
    worker,     \* caller -> provider -> the pool thread running the provider function
    ret,        \* caller -> object id of the response its call returned (0: none, or gone)
    streak      \* provider -> client calls that raised since the last one that returned

vars == <<now, breaker, cache, heap, pc, req, widx, wstart, rmap, worker, ret, streak>>

----------------------------------------------------------------------------
(* Program constants *)

\* CircuitBreaker.__init__ defaults, used by both module-level breakers
failure_threshold == 5
cooldown_seconds == 60
\* timedelta.seconds is the seconds part of the difference, days left out
SecondsPerDay == 86400
\* SearchConfig.timeout_seconds
timeout_seconds == 15

(* Bounds of the model *)

\* no client call raises once failure_count has reached this
MaxFailures == 6

NoTime == -1

\* providers_to_run, in the order search_dual submits them
ProviderOrder == <<"tavily", "duckduckgo">>
Providers == {"tavily", "duckduckgo"}
Callers == {"c1", "c2"}

\* ProviderStatus
OK == "ok"
FAILED == "failed"
TIMEOUT == "timeout"
DISABLED == "disabled"

\* SearchType values
SearchTypes == {"general", "news", "images", "videos", "academic"}

----------------------------------------------------------------------------
(* Strings: str.lower() and str.rstrip("/") on sequences of characters *)

LowerChar(ch) == IF ch = "A" THEN "a" ELSE IF ch = "B" THEN "b" ELSE ch

Lower(s) == [i \in 1..Len(s) |-> LowerChar(s[i])]

RECURSIVE RStripSlash(_)
RStripSlash(s) ==
    IF s # <<>> /\ s[Len(s)] = "/" THEN RStripSlash(SubSeq(s, 1, Len(s) - 1)) ELSE s

\* item.get("url", "").rstrip("/").lower()
NormUrl(u) == Lower(RStripSlash(u))

\* SearchType(search_type.lower()) on the type strings the model passes
LowerType(t) ==
    CASE t = "GENERAL" -> "general"
      [] t = "News" -> "news"
      [] OTHER -> t

----------------------------------------------------------------------------
(* _deduplicate_results *)

\* index of url in the insertion-ordered dict seen_urls, 0 when absent
RECURSIVE SeenIndex(_, _, _)
SeenIndex(seen, url, i) ==
    IF i > Len(seen) THEN 0
    ELSE IF seen[i].key = url THEN i
    ELSE SeenIndex(seen, url, i + 1)

\* the body of "if url in seen_urls": existing is updated in place
MergeInto(existing, item) ==
    IF item.score > existing.score
    THEN [existing EXCEPT
            !.score = item.score,
            !.source_engine = existing.source_engine \o item.source_engine,
            !.snippet = IF existing.snippet = "" /\ item.snippet # ""
                        THEN item.snippet ELSE existing.snippet]
    ELSE existing

\* a loop body that keys seen_urls by the URL as the provider gave it
DedupStep_NoNorm(seen, item) ==
    LET url == item.url
        i == SeenIndex(seen, url, 1)
    IN  IF url = <<>> THEN seen
        ELSE IF i > 0
             THEN [seen EXCEPT ![i].item = MergeInto(seen[i].item, item)]
             ELSE Append(seen, [key |-> url, item |-> item])

\* the loop body of _deduplicate_results
DedupStep(seen, item) ==
    LET url == NormUrl(item.url)
        i == SeenIndex(seen, url, 1)
    IN  IF url = <<>> THEN seen
        ELSE IF i > 0
             THEN [seen EXCEPT ![i].item = MergeInto(seen[i].item, item)]
             ELSE Append(seen, [key |-> url, item |-> item])

RECURSIVE DedupLoop(_, _, _)
DedupLoop(seen, results, i) ==
    IF i > Len(results) THEN seen
    ELSE DedupLoop(DedupStep(seen, results[i]), results, i + 1)

_deduplicate_results(results) ==
    LET seen == DedupLoop(<<>>, results, 1)
    IN  [i \in 1..Len(seen) |-> seen[i].item]

----------------------------------------------------------------------------
(* _rank_results *)

\* list.sort(key=score, reverse=True): stable, descending
RECURSIVE InsertDesc(_, _)
InsertDesc(sorted, item) ==
    IF sorted = <<>> THEN <<item>>
    ELSE IF sorted[Len(sorted)].score >= item.score THEN Append(sorted, item)
    ELSE Append(InsertDesc(SubSeq(sorted, 1, Len(sorted) - 1), item), sorted[Len(sorted)])

RECURSIVE SortDesc(_, _, _)
SortDesc(sorted, results, i) ==
    IF i > Len(results) THEN sorted
    ELSE SortDesc(InsertDesc(sorted, results[i]), results, i + 1)

\* the while loop: one Tavily result, then one DuckDuckGo result, in turn
RECURSIVE Interleave(_, _, _, _, _)
Interleave(merged, tav, ddg, t_idx, d_idx) ==
    IF ~(t_idx < Len(tav) \/ d_idx < Len(ddg)) THEN merged
    ELSE LET m1 == IF t_idx < Len(tav) THEN Append(merged, tav[t_idx + 1]) ELSE merged
             t1 == IF t_idx < Len(tav) THEN t_idx + 1 ELSE t_idx
             m2 == IF d_idx < Len(ddg) THEN Append(m1, ddg[d_idx + 1]) ELSE m1
             d1 == IF d_idx < Len(ddg) THEN d_idx + 1 ELSE d_idx
         IN  Interleave(m2, tav, ddg, t1, d1)

\* the results of one source: source_engine compared with the provider's name
BySource(results, name) ==
    SelectSeq(results, LAMBDA r : r.source_engine = <<name>>)

\* _rank_results without its last loop: the providers' ranks are kept
_rank_results_NoRerank(results) ==
    IF results = <<>> THEN <<>>
    ELSE Interleave(<<>>, SortDesc(<<>>, BySource(results, "tavily"), 1),
                    SortDesc(<<>>, BySource(results, "duckduckgo"), 1), 0, 0)

_rank_results(results) ==
    IF results = <<>> THEN <<>>
    ELSE LET tavily_results == SortDesc(<<>>, BySource(results, "tavily"), 1)
             ddg_results == SortDesc(<<>>, BySource(results, "duckduckgo"), 1)
             merged == Interleave(<<>>, tavily_results, ddg_results, 0, 0)
         IN  [i \in 1..Len(merged) |-> [merged[i] EXCEPT !.rank = i]]

----------------------------------------------------------------------------
(* CircuitBreaker *)

NewBreaker == [failure_count |-> 0, last_failure_time |-> NoTime, state |-> "closed"]

\* (datetime.now() - self.last_failure_time).seconds
ElapsedSeconds(b, t) == (t - b.last_failure_time) % SecondsPerDay

\* the condition under which an open breaker lets a call through
CooldownOver(b, t) ==
    b.last_failure_time # NoTime /\ ElapsedSeconds(b, t) > cooldown_seconds

\* can_execute: the value returned
can_execute(b, t) ==
    IF b.state = "open" THEN CooldownOver(b, t) ELSE TRUE

\* can_execute: the breaker it leaves
after_can_execute(b, t) ==
    IF b.state = "open" /\ CooldownOver(b, t) THEN [b EXCEPT !.state = "half-open"] ELSE b

\* record_success that closes the breaker and leaves failure_count as it is
record_success_KeepsCount(b) == [b EXCEPT !.state = "closed"]

record_success(b) == [b EXCEPT !.failure_count = 0, !.state = "closed"]

\* record_failure that opens one failure late: failure_count > failure_threshold
record_failure_Late(b, t) ==
    LET n == b.failure_count + 1
    IN  [b EXCEPT !.failure_count = n,
                  !.last_failure_time = t,
                  !.state = IF n > failure_threshold THEN "open" ELSE b.state]

\* record_failure that opens one failure early
record_failure_Early(b, t) ==
    LET n == b.failure_count + 1
    IN  [b EXCEPT !.failure_count = n,
                  !.last_failure_time = t,
                  !.state = IF n >= failure_threshold - 1 THEN "open" ELSE b.state]

\* record_failure that opens only when the count is the threshold itself
record_failure_Exact(b, t) ==
    LET n == b.failure_count + 1
    IN  [b EXCEPT !.failure_count = n,
                  !.last_failure_time = t,
                  !.state = IF n = failure_threshold THEN "open" ELSE b.state]

record_failure(b, t) ==
    LET n == b.failure_count + 1
    IN  [b EXCEPT !.failure_count = n,
                  !.last_failure_time = t,
                  !.state = IF n >= failure_threshold THEN "open" ELSE b.state]

----------------------------------------------------------------------------
(* SearchCache and the response objects it shares with the callers *)

\* _make_key: the md5 of "query:search_type:num_results", one key per triple
_make_key(query, search_type, num_results) == <<query, search_type, num_results>>

\* the requests the callers make: query, search_type as passed, num_results
Requests ==
    { <<"q1", "general", 5>>, <<"q1", "GENERAL", 5>>, <<"q1", "News", 5>>, <<"q1", "bogus", 5>>,
      <<"q1", "general", 0>>, <<"q1", "general", -1>>, <<"q1", "bogus", 0>> }

ValidRequests == { r \in Requests : LowerType(r[2]) \in SearchTypes }

KeyOf(r) == _make_key(r[1], LowerType(r[2]), r[3])

Keys == { KeyOf(r) : r \in ValidRequests }

\* a response dict is referenced by a cache entry, by the caller it was returned to, or both
ObjIds == 1..(Cardinality(Keys) + Cardinality(Callers))

\* SearchCache.get: whether it returns entry.data
\* a get that still returns an entry at the instant it expires
CacheHit_AtExpiry(ca, key, t) == ca[key] # <<>> /\ ca[key][1].expires >= t

\* SearchCache.get returns entry.data
CacheHit(ca, key, t) == ca[key] # <<>> /\ ca[key][1].expires > t

\* SearchCache.get: the cache it leaves (an expired entry is deleted)
CacheAfterGet(ca, key, t) ==
    IF ca[key] # <<>> /\ ~(ca[key][1].expires > t) THEN [ca EXCEPT ![key] = <<>>] ELSE ca

\* SearchCache.set that forgets the TTL: the entry expires as it is stored
CacheSet_NoTtl(ca, key, id, t, ttl) ==
    [ca EXCEPT ![key] = <<[data |-> id, expires |-> t]>>]

\* SearchCache.set
CacheSet(ca, key, id, t, ttl) ==
    [ca EXCEPT ![key] = <<[data |-> id, expires |-> t + ttl]>>]

\* the objects no cache entry and no caller refers to are gone
Referenced(ca, rt, id) ==
    \/ \E k \in Keys : ca[k] # <<>> /\ ca[k][1].data = id
    \/ \E c \in Callers : rt[c] = id

Collect(h, ca, rt) == [id \in ObjIds |-> IF Referenced(ca, rt, id) THEN h[id] ELSE <<>>]

\* the id a new dict gets, once caller c has let go of its previous response
NewId(ca, rt, c) ==
    CHOOSE id \in ObjIds :
        /\ ~Referenced(ca, [rt EXCEPT ![c] = 0], id)
        /\ \A j \in ObjIds : j < id => Referenced(ca, [rt EXCEPT ![c] = 0], j)

----------------------------------------------------------------------------
(* The provider functions: what they make of the client's answer *)

\* the result dict of a provider call that did not return results
Failure(status, error) ==
    [results |-> <<>>, error |-> error, status |-> status, answer |-> ""]

\* _search_tavily: score boosted by 1.2, rank by position
TavilyResults(raw) ==
    [i \in 1..Len(raw) |->
        [url |-> raw[i].url, snippet |-> raw[i].content,
         score |-> (raw[i].score * 12) \div 10,
         source_engine |-> <<"tavily">>, rank |-> i]]

\* _search_duckduckgo: max(0.5, 1.0 - idx * 0.1) with idx from 0
EstimatedScore(i) == IF 100 - (i - 1) * 10 > 50 THEN 100 - (i - 1) * 10 ELSE 50

DdgResults(raw) ==
    [i \in 1..Len(raw) |->
        [url |-> raw[i].url, snippet |-> raw[i].content,
         score |-> EstimatedScore(i),
         source_engine |-> <<"duckduckgo">>, rank |-> i]]

Success(p, resp) ==
    [results |-> IF p = "tavily" THEN TavilyResults(resp.results) ELSE DdgResults(resp.results),
     error |-> "",
     status |-> OK,
     answer |-> IF p = "tavily" THEN resp.answer ELSE ""]

----------------------------------------------------------------------------
(* The inputs: configurations, and what the providers' clients answer *)

\* SearchConfig values the callers pass: caching, Tavily key present, providers enabled
Config(caching, key, tavily, ddg) ==
    [enable_cache |-> caching, cache_ttl_seconds |-> 30, tavily_api_key |-> key,
     enable_tavily |-> tavily, enable_duckduckgo |-> ddg]

Configs ==
    { Config(TRUE, TRUE, TRUE, TRUE),
      Config(FALSE, TRUE, TRUE, TRUE),
      Config(TRUE, FALSE, TRUE, TRUE),
      Config(TRUE, TRUE, FALSE, TRUE),
      Config(TRUE, TRUE, FALSE, FALSE) }

\* providers_to_run
providers_to_run(cfg) ==
    SelectSeq(ProviderOrder,
              LAMBDA p : IF p = "tavily" THEN cfg.enable_tavily ELSE cfg.enable_duckduckgo)

Dispatched(cfg) == { providers_to_run(cfg)[i] : i \in 1..Len(providers_to_run(cfg)) }

\* the characters of the URLs, and the URLs the clients return
Urls == { <<>>, <<"a">>, <<"A", "/">>, <<"b">> }

RawItem(u, s, sc) == [url |-> u, content |-> s, score |-> sc]

\* what the clients answer in the specification of the whole engine
SmallPool(p) ==
    IF p = "tavily"
    THEN { [results |-> <<>>, answer |-> ""],
           [results |-> <<RawItem(<<"a">>, "t", 50)>>, answer |-> "ans"] }
    ELSE { [results |-> <<>>, answer |-> ""],
           [results |-> <<RawItem(<<"A", "/">>, "d", 0), RawItem(<<"b">>, "", 0)>>, answer |-> ""] }

\* what the clients answer in the specification of the merge: every list of at
\* most MaxResults items
MaxResults == 2

RawItems(p) ==
    { RawItem(u, s, sc) : u \in Urls, s \in {"", "t"},
                          sc \in IF p = "tavily" THEN {50, 100} ELSE {0} }

RawLists(p) == UNION { [1..n -> RawItems(p)] : n \in 0..MaxResults }

RichPool(p) == { [results |-> l, answer |-> ""] : l \in RawLists(p) }

----------------------------------------------------------------------------
(* The state after import of the module *)

NoWorker == [pc |-> "none", invoked |-> FALSE, result |-> Failure(FAILED, ""), read |-> 0]

NoRequest == [key |-> <<"", "", 0>>, cfg |-> CHOOSE g \in Configs : TRUE]

Init ==
    /\ now = 0
    /\ breaker = [p \in Providers |-> NewBreaker]
    /\ cache = [k \in Keys |-> <<>>]
    /\ heap = [id \in ObjIds |-> <<>>]
    /\ pc = [c \in Callers |-> "idle"]
    /\ req = [c \in Callers |-> NoRequest]
    /\ widx = [c \in Callers |-> 0]
    /\ wstart = [c \in Callers |-> 0]
    /\ rmap = [c \in Callers |-> [p \in Providers |-> <<>>]]
    /\ worker = [c \in Callers |-> [p \in Providers |-> NoWorker]]
    /\ ret = [c \in Callers |-> 0]
    /\ streak = [p \in Providers |-> 0]

----------------------------------------------------------------------------
(* search_dual, up to the submission of the provider calls *)

CanStart(c) == pc[c] \in {"idle", "done", "raised"}

\* use_cache is left None: should_cache is config.enable_cache
should_cache(cfg) == cfg.enable_cache

\* a caller entering search_dual: the locals of its previous call are gone
EnterCall(c, r, g) ==
    /\ req' = [req EXCEPT ![c] = [key |-> KeyOf(r), cfg |-> g]]
    /\ rmap' = [rmap EXCEPT ![c] = [p \in Providers |-> <<>>]]
    /\ worker' = [worker EXCEPT ![c] = [p \in Providers |-> NoWorker]]

\* SearchType(search_type.lower()) raises ValueError
StartInvalid(c, r, g) ==
    /\ CanStart(c)
    /\ LowerType(r[2]) \notin SearchTypes
    /\ pc' = [pc EXCEPT ![c] = "raised"]
    /\ req' = [req EXCEPT ![c] = [key |-> <<r[1], LowerType(r[2]), r[3]>>, cfg |-> g]]
    /\ rmap' = [rmap EXCEPT ![c] = [p \in Providers |-> <<>>]]
    /\ worker' = [worker EXCEPT ![c] = [p \in Providers |-> NoWorker]]
    /\ ret' = [ret EXCEPT ![c] = 0]
    /\ heap' = Collect(heap, cache, ret')
    /\ UNCHANGED <<now, breaker, cache, widx, wstart, streak>>

\* a hit that returns the stored dict without marking it cached
StartHit_Unmarked(c, r, g) ==
    /\ CanStart(c)
    /\ LowerType(r[2]) \in SearchTypes
    /\ should_cache(g)
    /\ CacheHit(cache, KeyOf(r), now)
    /\ ret' = [ret EXCEPT ![c] = cache[KeyOf(r)][1].data]
    /\ heap' = Collect(heap, cache, ret')
    /\ pc' = [pc EXCEPT ![c] = "done"]
    /\ EnterCall(c, r, g)
    /\ UNCHANGED <<now, breaker, cache, widx, wstart, streak>>

\* the cache holds the key: the stored dict is marked cached and returned
ReturnCached(c, r, g) ==
    /\ LowerType(r[2]) \in SearchTypes
    /\ should_cache(g)
    /\ CacheHit(cache, KeyOf(r), now)
    /\ LET id == cache[KeyOf(r)][1].data
       IN  /\ ret' = [ret EXCEPT ![c] = id]
           /\ heap' = Collect([heap EXCEPT ![id] = <<[heap[id][1] EXCEPT !.cached = TRUE]>>],
                              cache, ret')
    /\ pc' = [pc EXCEPT ![c] = "done"]
    /\ EnterCall(c, r, g)
    /\ UNCHANGED <<now, breaker, cache, widx, wstart, streak>>

StartHit(c, r, g) == CanStart(c) /\ ReturnCached(c, r, g)

Miss(r, g) ==
    /\ LowerType(r[2]) \in SearchTypes
    /\ ~(should_cache(g) /\ CacheHit(cache, KeyOf(r), now))

CacheAfterLookup(r, g) ==
    IF should_cache(g) THEN CacheAfterGet(cache, KeyOf(r), now) ELSE cache

\* the response of a call: query and search_type are those of the key
Response(key, results, answer, providers, error, t) ==
    [key |-> key, results |-> results, total_found |-> Len(results), answer |-> answer,
     providers |-> providers, timestamp |-> t, cached |-> FALSE, error |-> error]

\* no provider is enabled
ReturnNoProviders(c, r, g) ==
    /\ Miss(r, g)
    /\ providers_to_run(g) = <<>>
    /\ cache' = CacheAfterLookup(r, g)
    /\ LET id == NewId(cache', ret, c)
           resp == Response(KeyOf(r), <<>>, "", <<>>, "No search providers enabled", now)
       IN  /\ ret' = [ret EXCEPT ![c] = id]
           /\ heap' = Collect([heap EXCEPT ![id] = <<resp>>], cache', ret')
    /\ pc' = [pc EXCEPT ![c] = "done"]
    /\ EnterCall(c, r, g)
    /\ UNCHANGED <<now, breaker, widx, wstart, streak>>

StartNoProviders(c, r, g) == CanStart(c) /\ ReturnNoProviders(c, r, g)

\* executor.submit for every provider to run; the first future.result begins
Dispatch(c, r, g) ==
    /\ Miss(r, g)
    /\ providers_to_run(g) # <<>>
    /\ cache' = CacheAfterLookup(r, g)
    /\ ret' = [ret EXCEPT ![c] = 0]
    /\ heap' = Collect(heap, cache', ret')
    /\ req' = [req EXCEPT ![c] = [key |-> KeyOf(r), cfg |-> g]]
    /\ rmap' = [rmap EXCEPT ![c] = [p \in Providers |-> <<>>]]
    /\ worker' = [worker EXCEPT ![c] =
            [p \in Providers |-> IF p \in Dispatched(g)
                                 THEN [NoWorker EXCEPT !.pc = "queued"] ELSE NoWorker]]
    /\ widx' = [widx EXCEPT ![c] = 1]
    /\ wstart' = [wstart EXCEPT ![c] = now]
    /\ pc' = [pc EXCEPT ![c] = "wait"]
    /\ UNCHANGED <<now, breaker, streak>>

StartDispatch(c, r, g) == CanStart(c) /\ Dispatch(c, r, g)

----------------------------------------------------------------------------
(* _search_tavily and _search_duckduckgo, each run by a thread of the pool *)

Queued(c, p) == worker[c][p].pc = "queued"

WorkerDone(c, p, res) ==
    worker' = [worker EXCEPT ![c][p].pc = "done", ![c][p].result = res]

\* can_execute() is False: the call returns at once, the client is not called
ProviderShortCircuit(c, p) ==
    /\ Queued(c, p)
    /\ ~can_execute(breaker[p], now)
    /\ breaker' = [breaker EXCEPT ![p] = after_can_execute(breaker[p], now)]
    /\ WorkerDone(c, p, Failure(DISABLED, "Circuit breaker open - too many recent failures"))
    /\ UNCHANGED <<now, cache, heap, pc, req, widx, wstart, rmap, ret, streak>>

\* a missing key reported with the words of an open breaker
ProviderNoKey_AsOpen(c, p) ==
    /\ Queued(c, p)
    /\ p = "tavily"
    /\ can_execute(breaker[p], now)
    /\ ~req[c].cfg.tavily_api_key
    /\ breaker' = [breaker EXCEPT ![p] = after_can_execute(breaker[p], now)]
    /\ WorkerDone(c, p, Failure(DISABLED, "Circuit breaker open - too many recent failures"))
    /\ UNCHANGED <<now, cache, heap, pc, req, widx, wstart, rmap, ret, streak>>

\* a key check that comes too late: the client is built and called without a key
ProviderNoKey_Invokes(c, p) ==
    /\ Queued(c, p)
    /\ p = "tavily"
    /\ can_execute(breaker[p], now)
    /\ ~req[c].cfg.tavily_api_key
    /\ breaker' = [breaker EXCEPT ![p] = after_can_execute(breaker[p], now)]
    /\ worker' = [worker EXCEPT ![c][p].pc = "running", ![c][p].invoked = TRUE]
    /\ UNCHANGED <<now, cache, heap, pc, req, widx, wstart, rmap, ret, streak>>

\* _search_tavily: no API key
ProviderNoKey(c, p) ==
    /\ Queued(c, p)
    /\ p = "tavily"
    /\ can_execute(breaker[p], now)
    /\ ~req[c].cfg.tavily_api_key
    /\ breaker' = [breaker EXCEPT ![p] = after_can_execute(breaker[p], now)]
    /\ WorkerDone(c, p, Failure(DISABLED, "TAVILY_API_KEY not set"))
    /\ UNCHANGED <<now, cache, heap, pc, req, widx, wstart, rmap, ret, streak>>

\* client.search(...) or ddgs.text(...) is called; a call that stalls never returns
ClientCall(c, p, stalls) ==
    /\ Queued(c, p)
    /\ can_execute(breaker[p], now)
    /\ p = "tavily" => req[c].cfg.tavily_api_key
    /\ breaker' = [breaker EXCEPT ![p] = after_can_execute(breaker[p], now)]
    /\ worker' = [worker EXCEPT ![c][p].pc = IF stalls THEN "stalled" ELSE "running",
                                ![c][p].invoked = TRUE]
    /\ UNCHANGED <<now, cache, heap, pc, req, widx, wstart, rmap, ret, streak>>

\* the client returns resp: the results are normalised and record_success() is called
ClientReturns(c, p, resp) ==
    /\ worker[c][p].pc = "running"
    /\ breaker' = [breaker EXCEPT ![p] = record_success(breaker[p])]
    /\ streak' = [streak EXCEPT ![p] = 0]
    /\ WorkerDone(c, p, Success(p, resp))
    /\ UNCHANGED <<now, cache, heap, pc, req, widx, wstart, rmap, ret>>

\* both provider functions recording their failures on Tavily's breaker
ClientRaises_OneBreaker(c, p) ==
    /\ worker[c][p].pc = "running"
    /\ breaker[p].failure_count < MaxFailures
    /\ breaker' = [breaker EXCEPT !["tavily"] = record_failure(breaker["tavily"], now)]
    /\ streak' = [streak EXCEPT ![p] = streak[p] + 1]
    /\ WorkerDone(c, p, Failure(FAILED, "client error"))
    /\ UNCHANGED <<now, cache, heap, pc, req, widx, wstart, rmap, ret>>

\* the client raises: except Exception, record_failure() is called
ClientRaises(c, p) ==
    /\ worker[c][p].pc = "running"
    /\ breaker[p].failure_count < MaxFailures
    /\ breaker' = [breaker EXCEPT ![p] = record_failure(breaker[p], now)]
    /\ streak' = [streak EXCEPT ![p] = streak[p] + 1]
    /\ WorkerDone(c, p, Failure(FAILED, "client error"))
    /\ UNCHANGED <<now, cache, heap, pc, req, widx, wstart, rmap, ret>>

\* record_failure() run by threads that share the breaker: failure_count += 1
\* reads the count ...
ClientRaisesRead(c, p) ==
    /\ worker[c][p].pc = "running"
    /\ breaker[p].failure_count < MaxFailures
    /\ worker' = [worker EXCEPT ![c][p].pc = "recording",
                                ![c][p].read = breaker[p].failure_count]
    /\ UNCHANGED <<now, breaker, cache, heap, pc, req, widx, wstart, rmap, ret, streak>>

\* ... and writes it back one higher, whatever the other threads wrote meanwhile;
\* then last_failure_time is set and the threshold is tested
ClientRaisesWrite(c, p) ==
    /\ worker[c][p].pc = "recording"
    /\ breaker' = [breaker EXCEPT ![p] =
            record_failure([breaker[p] EXCEPT !.failure_count = worker[c][p].read], now)]
    /\ streak' = [streak EXCEPT ![p] = streak[p] + 1]
    /\ worker' = [worker EXCEPT ![c][p].pc = "done", ![c][p].read = 0,
                                ![c][p].result = Failure(FAILED, "client error")]
    /\ UNCHANGED <<now, cache, heap, pc, req, widx, wstart, rmap, ret>>

----------------------------------------------------------------------------
(* search_dual: the futures are waited for in the order of submission *)

Current(c) == providers_to_run(req[c].cfg)[widx[c]]

Deadline(c) == wstart[c] + timeout_seconds

\* results_map[name] is set and the loop goes on to the next future
NextFuture(c, res) ==
    /\ rmap' = [rmap EXCEPT ![c][Current(c)] = <<res>>]
    /\ IF widx[c] < Len(providers_to_run(req[c].cfg))
       THEN /\ widx' = [widx EXCEPT ![c] = widx[c] + 1]
            /\ wstart' = [wstart EXCEPT ![c] = now]
            /\ pc' = pc
       ELSE /\ widx' = [widx EXCEPT ![c] = 0]
            /\ wstart' = [wstart EXCEPT ![c] = 0]
            /\ pc' = [pc EXCEPT ![c] = "join"]

\* future.result(timeout) returns the provider function's dict
WaitResult(c) ==
    /\ pc[c] = "wait"
    /\ worker[c][Current(c)].pc = "done"
    /\ NextFuture(c, worker[c][Current(c)].result)
    /\ UNCHANGED <<now, breaker, cache, heap, req, worker, ret, streak>>

\* future.result(timeout) raises FuturesTimeoutError and nothing catches it
WaitTimeout_Uncaught(c) ==
    /\ pc[c] = "wait"
    /\ worker[c][Current(c)].pc # "done"
    /\ now >= Deadline(c)
    /\ pc' = [pc EXCEPT ![c] = "raised"]
    /\ UNCHANGED <<now, breaker, cache, heap, req, widx, wstart, rmap, worker, ret, streak>>

\* future.result(timeout) raises FuturesTimeoutError
WaitTimeout(c) ==
    /\ pc[c] = "wait"
    /\ worker[c][Current(c)].pc # "done"
    /\ now >= Deadline(c)
    /\ NextFuture(c, Failure(TIMEOUT, "Timeout after 15s"))
    /\ UNCHANGED <<now, breaker, cache, heap, req, worker, ret, streak>>

----------------------------------------------------------------------------
(* search_dual: after the with block, the results are processed *)

\* providers_info[name]
ProviderInfo(data) ==
    IF data.status = OK
    THEN [status |-> data.status, results_count |-> Len(data.results), error |-> ""]
    ELSE [status |-> data.status, results_count |-> 0, error |-> data.error]

RECURSIVE AllResults(_, _, _)

\* all_results gathered from the last provider submitted to the first
AllResults_Reversed(rm, order, i) ==
    IF i > Len(order) THEN <<>>
    ELSE AllResults(rm, order, i + 1)
         \o (IF rm[order[i]][1].status = OK THEN rm[order[i]][1].results ELSE <<>>)

\* all_results: the results of the providers that are OK, in results_map order
AllResults(rm, order, i) ==
    IF i > Len(order) THEN <<>>
    ELSE (IF rm[order[i]][1].status = OK THEN rm[order[i]][1].results ELSE <<>>)
         \o AllResults(rm, order, i + 1)

\* ranked = _rank_results(_deduplicate_results(all_results))
Merged(all_results) == _rank_results(_deduplicate_results(all_results))

BuildResponse(key, cfg, rm, t) ==
    LET order == providers_to_run(cfg)
        tav == rm["tavily"]
    IN  Response(key,
                 Merged(AllResults(rm, order, 1)),
                 IF tav # <<>> /\ tav[1].status = OK /\ tav[1].answer # "" THEN tav[1].answer ELSE "",
                 [p \in Dispatched(cfg) |-> ProviderInfo(rm[p][1])],
                 "", t)

\* a store of whatever the call returns, an empty result list too
ShouldStore_Always(cfg, resp) == should_cache(cfg)

\* if should_cache and ranked
ShouldStore(cfg, resp) == should_cache(cfg) /\ resp.results # <<>>

\* the executor's shutdown(wait=True) returns when every thread has ended
PoolIdle(c) == \A p \in Dispatched(req[c].cfg) : worker[c][p].pc = "done"

\* the with block is left, the response is built, cached if there are results, returned
Return(c) ==
    /\ LET resp == BuildResponse(req[c].key, req[c].cfg, rmap[c], now)
           id == NewId(cache, ret, c)
       IN  /\ ret' = [ret EXCEPT ![c] = id]
           /\ cache' = IF ShouldStore(req[c].cfg, resp)
                       THEN CacheSet(cache, req[c].key, id, now, req[c].cfg.cache_ttl_seconds)
                       ELSE cache
           /\ heap' = Collect([heap EXCEPT ![id] = <<resp>>], cache', ret')
    /\ pc' = [pc EXCEPT ![c] = "done"]
    /\ rmap' = [rmap EXCEPT ![c] = [p \in Providers |-> <<>>]]
    /\ worker' = [worker EXCEPT ![c] = [p \in Providers |-> NoWorker]]
    /\ UNCHANGED <<now, breaker, req, widx, wstart, streak>>

Finish(c) == pc[c] = "join" /\ PoolIdle(c) /\ Return(c)

----------------------------------------------------------------------------
(* SearchCache._lock: one asyncio.Lock, made at import, taken by get and set *)
(* inside asyncio.run, that is, in a new event loop of the calling thread    *)

\* c is inside "async with self._lock" of get
Holder(c) == pc[c] = "get"

\* c has put a future of its own loop in the lock's waiters
Waiter(c) == pc[c] \in {"get_wait", "set_wait", "blocked"}

\* acquire() takes the lock at once: it is not locked and nobody waits
LockIdle == \A c \in Callers : ~Holder(c) /\ ~Waiter(c)

\* a call with caching on and a valid type begins: _search_cache.get
CanGet(c, r, g) ==
    /\ CanStart(c)
    /\ LowerType(r[2]) \in SearchTypes
    /\ should_cache(g)

\* get takes the lock
GetAcquire(c, r, g) ==
    /\ CanGet(c, r, g)
    /\ LockIdle
    /\ pc' = [pc EXCEPT ![c] = "get"]
    /\ EnterCall(c, r, g)
    /\ UNCHANGED <<now, breaker, cache, heap, widx, wstart, ret, streak>>

\* get finds the lock held by another thread and nobody waiting: the lock is
\* bound to this thread's loop and a future of that loop is awaited.  The
\* holder's release() sets the future's result from its own thread, which does
\* not wake this thread's loop: it wakes if it had not gone to sleep yet, and
\* never otherwise
GetQueue(c, r, g, wakes) ==
    /\ CanGet(c, r, g)
    /\ \E d \in Callers \ {c} : Holder(d)
    /\ \A d \in Callers : ~Waiter(d)
    /\ pc' = [pc EXCEPT ![c] = IF wakes THEN "get_wait" ELSE "blocked"]
    /\ EnterCall(c, r, g)
    /\ UNCHANGED <<now, breaker, cache, heap, widx, wstart, ret, streak>>

\* get finds a waiter of another loop: RuntimeError, the lock is bound to a
\* different event loop; asyncio.run lets it through and so does search_dual
GetRaises(c, r, g) ==
    /\ CanGet(c, r, g)
    /\ \E d \in Callers \ {c} : Waiter(d)
    /\ pc' = [pc EXCEPT ![c] = "raised"]
    /\ ret' = [ret EXCEPT ![c] = 0]
    /\ heap' = Collect(heap, cache, ret')
    /\ EnterCall(c, r, g)
    /\ UNCHANGED <<now, breaker, cache, widx, wstart, streak>>

\* the waiter is woken and takes the lock
GetWake(c) ==
    /\ pc[c] = "get_wait"
    /\ \A d \in Callers : ~Holder(d)
    /\ pc' = [pc EXCEPT ![c] = "get"]
    /\ UNCHANGED <<now, breaker, cache, heap, req, widx, wstart, rmap, worker, ret, streak>>

\* the body of get, the release of the lock, and search_dual up to its return
\* or to the submission of the provider calls
GetLookup(c) ==
    /\ pc[c] = "get"
    /\ LET r == req[c].key
           g == req[c].cfg
       IN  \/ ReturnCached(c, r, g)
           \/ ReturnNoProviders(c, r, g)
           \/ Dispatch(c, r, g)

\* the call has results to store: _search_cache.set
CanSet(c) ==
    /\ pc[c] = "join"
    /\ PoolIdle(c)
    /\ ShouldStore(req[c].cfg, BuildResponse(req[c].key, req[c].cfg, rmap[c], now))

\* nothing to store, or set takes the lock at once, stores and releases
FinishIdle(c) == (CanSet(c) => LockIdle) /\ Finish(c)

\* set finds the lock held and nobody waiting, as GetQueue
SetQueue(c, wakes) ==
    /\ CanSet(c)
    /\ \E d \in Callers \ {c} : Holder(d)
    /\ \A d \in Callers : ~Waiter(d)
    /\ pc' = [pc EXCEPT ![c] = IF wakes THEN "set_wait" ELSE "blocked"]
    /\ UNCHANGED <<now, breaker, cache, heap, req, widx, wstart, rmap, worker, ret, streak>>

\* set finds a waiter of another loop: RuntimeError
SetRaises(c) ==
    /\ CanSet(c)
    /\ \E d \in Callers \ {c} : Waiter(d)
    /\ pc' = [pc EXCEPT ![c] = "raised"]
    /\ rmap' = [rmap EXCEPT ![c] = [p \in Providers |-> <<>>]]
    /\ worker' = [worker EXCEPT ![c] = [p \in Providers |-> NoWorker]]
    /\ UNCHANGED <<now, breaker, cache, heap, req, widx, wstart, ret, streak>>

\* the waiter is woken, takes the lock, stores, releases, and the call returns
SetWake(c) ==
    /\ pc[c] = "set_wait"
    /\ \A d \in Callers : ~Holder(d)
    /\ Return(c)

----------------------------------------------------------------------------
(* Time *)

\* a caller in future.result(timeout) wakes when the future is done or the
\* timeout is over: time does not pass it by
MayPass(c, t) ==
    pc[c] = "wait" => worker[c][Current(c)].pc # "done" /\ t <= Deadline(c)

Tick(t) ==
    /\ t > now
    /\ \A c \in Callers : MayPass(c, t)
    /\ now' = t
    /\ UNCHANGED <<breaker, cache, heap, pc, req, widx, wstart, rmap, worker, ret, streak>>

----------------------------------------------------------------------------
(* The whole engine: one thread calls search_dual, again and again *)

TheRequest == <<"q1", "general", 5>>

\* the requests of the thread: one key, passed in two spellings, and a type that is none
SpecRequests == { TheRequest, <<"q1", "GENERAL", 5>>, <<"q1", "bogus", 5>> }

\* the instants at which something happens
Instants == {0, 15, 30}

Next ==
    \/ \E r \in SpecRequests, g \in Configs :
          \/ StartInvalid("c1", r, g)
          \/ StartHit("c1", r, g)
          \/ StartNoProviders("c1", r, g)
          \/ StartDispatch("c1", r, g)
    \/ WaitResult("c1")
    \/ WaitTimeout("c1")
    \/ Finish("c1")
    \/ \E p \in Providers :
          \/ ProviderShortCircuit("c1", p)
          \/ ProviderNoKey("c1", p)
          \/ \E stalls \in BOOLEAN : ClientCall("c1", p, stalls)
          \/ \E resp \in SmallPool(p) : ClientReturns("c1", p, resp)
          \/ ClientRaises("c1", p)
    \/ \E t \in Instants : Tick(t)

Spec == Init /\ [][Next]_vars

----------------------------------------------------------------------------
(* The breakers over the cooldown and over a day: one thread, no caching, *)
(* one provider a call                                                    *)

BreakerConfigs == { Config(FALSE, TRUE, TRUE, FALSE), Config(FALSE, TRUE, FALSE, TRUE) }

BreakerPool(p) == { [results |-> <<>>, answer |-> ""] }

BreakerInstants == {0, 15, 75, 86400, 86475}

NextBreaker ==
    \/ \E g \in BreakerConfigs : StartDispatch("c1", TheRequest, g)
    \/ WaitResult("c1")
    \/ WaitTimeout("c1")
    \/ Finish("c1")
    \/ \E p \in Providers :
          \/ ProviderShortCircuit("c1", p)
          \/ ClientCall("c1", p, FALSE)
          \/ \E resp \in BreakerPool(p) : ClientReturns("c1", p, resp)
          \/ ClientRaises("c1", p)
    \/ \E t \in BreakerInstants : Tick(t)

BreakerSpec == Init /\ [][NextBreaker]_vars

----------------------------------------------------------------------------
(* A breaker on its own: its three methods called in any order *)

CallCanExecute(p) ==
    /\ breaker' = [breaker EXCEPT ![p] = after_can_execute(breaker[p], now)]
    /\ UNCHANGED <<now, cache, heap, pc, req, widx, wstart, rmap, worker, ret, streak>>

CallRecordSuccess(p) ==
    /\ breaker' = [breaker EXCEPT ![p] = record_success(breaker[p])]
    /\ UNCHANGED <<now, cache, heap, pc, req, widx, wstart, rmap, worker, ret, streak>>

CallRecordFailure(p) ==
    /\ breaker[p].failure_count < MaxFailures
    /\ breaker' = [breaker EXCEPT ![p] = record_failure(breaker[p], now)]
    /\ UNCHANGED <<now, cache, heap, pc, req, widx, wstart, rmap, worker, ret, streak>>

NextMethods ==
    \/ \E p \in Providers :
          \/ CallCanExecute(p)
          \/ CallRecordSuccess(p)
          \/ CallRecordFailure(p)
    \/ \E t \in BreakerInstants : Tick(t)

MethodSpec == Init /\ [][NextMethods]_vars

----------------------------------------------------------------------------
(* The merge: one thread, no caching, no time passing, the clients answer *)
(* every list of RichPool                                                 *)

MergeConfigs == { Config(FALSE, TRUE, TRUE, TRUE), Config(FALSE, FALSE, TRUE, TRUE) }

NextMerge ==
    \/ \E g \in MergeConfigs : StartDispatch("c1", TheRequest, g)
    \/ WaitResult("c1")
    \/ Finish("c1")
    \/ \E p \in Providers :
          \/ ProviderShortCircuit("c1", p)
          \/ ProviderNoKey("c1", p)
          \/ ClientCall("c1", p, FALSE)
          \/ \E resp \in RichPool(p) : ClientReturns("c1", p, resp)
          \/ ClientRaises("c1", p)

MergeSpec == Init /\ [][NextMerge]_vars

----------------------------------------------------------------------------
(* Two threads call search_dual at once: Tavily alone, no caching *)

ConcConfig == Config(FALSE, TRUE, TRUE, FALSE)

ConcInstants == {0, 15, 75}

NextConc ==
    \/ \E c \in Callers :
          \/ StartDispatch(c, TheRequest, ConcConfig)
          \/ WaitResult(c)
          \/ WaitTimeout(c)
          \/ Finish(c)
          \/ \E p \in Providers :
                \/ ProviderShortCircuit(c, p)
                \/ ClientCall(c, p, FALSE)
                \/ \E resp \in BreakerPool(p) : ClientReturns(c, p, resp)
                \/ ClientRaisesRead(c, p)
                \/ ClientRaisesWrite(c, p)
    \/ \E t \in ConcInstants : Tick(t)

ConcSpec == Init /\ [][NextConc]_vars

----------------------------------------------------------------------------
(* The arguments of search_dual: one thread, num_results in and out of range, *)
(* no time passing, no client raising                                         *)

ArgRequests ==
    { TheRequest, <<"q1", "general", 0>>, <<"q1", "general", -1>>, <<"q1", "bogus", 0>> }

ArgConfigs == { Config(TRUE, TRUE, TRUE, TRUE), Config(TRUE, TRUE, FALSE, FALSE) }

NextArg ==
    \/ \E r \in ArgRequests, g \in ArgConfigs :
          \/ StartInvalid("c1", r, g)
          \/ StartHit("c1", r, g)
          \/ StartNoProviders("c1", r, g)
          \/ StartDispatch("c1", r, g)
    \/ WaitResult("c1")
    \/ Finish("c1")
    \/ \E p \in Providers :
          \/ ClientCall("c1", p, FALSE)
          \/ \E resp \in SmallPool(p) : ClientReturns("c1", p, resp)

ArgSpec == Init /\ [][NextArg]_vars

----------------------------------------------------------------------------
(* The deadlines: one thread calls at instant 0, both providers are run, and *)
(* the DuckDuckGo client answers only after more than timeout_seconds        *)

DeadlineConfigs == { Config(FALSE, TRUE, TRUE, TRUE), Config(TRUE, TRUE, TRUE, TRUE) }

DeadlineInstants == {0, 5, 15, 20, 30}

\* the only calls are made at instant 0
CallAtZero(c, g) == now = 0 /\ StartDispatch(c, TheRequest, g)

\* the threads of the pool start at once
ClientCallAtZero(c, p) == now = 0 /\ ClientCall(c, p, FALSE)

\* a client that answers more than timeout_seconds after the call at instant 0
LateReturns(c, p, resp) == now > timeout_seconds /\ ClientReturns(c, p, resp)

NextDeadline ==
    \/ \E g \in DeadlineConfigs : CallAtZero("c1", g)
    \/ WaitResult("c1")
    \/ WaitTimeout("c1")
    \/ Finish("c1")
    \/ \E p \in Providers : ClientCallAtZero("c1", p)
    \/ \E resp \in SmallPool("tavily") : ClientReturns("c1", "tavily", resp)
    \/ ClientRaises("c1", "tavily")
    \/ \E resp \in SmallPool("duckduckgo") : LateReturns("c1", "duckduckgo", resp)
    \/ \E t \in DeadlineInstants : Tick(t)

DeadlineSpec == Init /\ [][NextDeadline]_vars

----------------------------------------------------------------------------
(* Two threads call search_dual at once with caching on: the cache's lock *)

LockConfigs == { Config(TRUE, TRUE, TRUE, TRUE), Config(TRUE, TRUE, FALSE, FALSE) }

NextLock ==
    \/ \E c \in Callers :
          \/ \E g \in LockConfigs :
                \/ GetAcquire(c, TheRequest, g)
                \/ \E wakes \in BOOLEAN : GetQueue(c, TheRequest, g, wakes)
                \/ GetRaises(c, TheRequest, g)
          \/ GetWake(c)
          \/ GetLookup(c)
          \/ WaitResult(c)
          \/ FinishIdle(c)
          \/ \E wakes \in BOOLEAN : SetQueue(c, wakes)
          \/ SetRaises(c)
          \/ SetWake(c)
          \/ \E p \in Providers :
                \/ ClientCall(c, p, FALSE)
                \/ \E resp \in SmallPool(p) : ClientReturns(c, p, resp)

LockSpec == Init /\ [][NextLock]_vars

----------------------------------------------------------------------------
(* The timeouts: one thread searches again and again with both providers, no *)
(* caching, and every client answers only after the wait for it has timed    *)
(* out; time passes only while the thread waits.  Every search then lasts    *)
(* 2 * timeout_seconds and reports both providers as timeout                 *)

TimeoutConfig == Config(FALSE, TRUE, TRUE, TRUE)

TimeoutInstants == { k * timeout_seconds : k \in 0..(2 * failure_threshold) }

\* the client answers after results_map has the timeout of its call
SlowReturns(c, p, resp) == rmap[c][p] # <<>> /\ ClientReturns(c, p, resp)

WaitTick(c, t) == pc[c] = "wait" /\ Tick(t)

NextTimeout ==
    \/ StartDispatch("c1", TheRequest, TimeoutConfig)
    \/ WaitTimeout("c1")
    \/ Finish("c1")
    \/ \E p \in Providers :
          \/ ClientCall("c1", p, FALSE)
          \/ \E resp \in SmallPool(p) : SlowReturns("c1", p, resp)
    \/ \E t \in TimeoutInstants : WaitTick("c1", t)

TimeoutSpec == Init /\ [][NextTimeout]_vars

----------------------------------------------------------------------------
(* Claims *)

\* the response caller c holds
Held(c) == heap[ret[c]][1]

Returned(c) == pc[c] = "done" /\ ret[c] # 0 /\ heap[ret[c]] # <<>>

NoneOk(resp) == \A p \in DOMAIN resp.providers : resp.providers[p].status # OK

\* C1: whatever the providers do on a cache miss (return, raise, time out, be
\* short-circuited, lack the key), search_dual called with a valid search type
\* raises nothing and returns a response with a status entry for every
\* dispatched provider; when none is ok, results is empty and total_found is 0.
C1_NeverRaises ==
    \A c \in Callers :
        /\ pc[c] = "raised" => req[c].key[2] \notin SearchTypes
        /\ pc[c] = "done" => Returned(c)
        /\ (Returned(c) /\ ~Held(c).cached) =>
              /\ DOMAIN Held(c).providers = Dispatched(req[c].cfg)
              /\ \A p \in DOMAIN Held(c).providers :
                    Held(c).providers[p].status \in {OK, FAILED, TIMEOUT, DISABLED}
              /\ Held(c).total_found = Len(Held(c).results)
              /\ NoneOk(Held(c)) => Held(c).results = <<>> /\ Held(c).total_found = 0

\* a call has returned with Tavily short-circuited and DuckDuckGo timed out
C1_Witness ==
    /\ Returned("c1")
    /\ ~Held("c1").cached
    /\ DOMAIN Held("c1").providers = Providers
    /\ Held("c1").providers["tavily"].error = "Circuit breaker open - too many recent failures"
    /\ Held("c1").providers["duckduckgo"].status = TIMEOUT
    /\ Held("c1").results = <<>>

\* the other providers of c's call have settled and been recorded
OthersSettled(c, p) ==
    \A q \in Dispatched(req[c].cfg) \ {p} : worker[c][q].pc = "done" /\ rmap[c][q] # <<>>

\* C2: a call whose one provider stalls for ever still returns: once the
\* stalled provider is recorded as timed out and the other has settled, the
\* caller can return its response.
C2_StalledCallReturns ==
    \A c \in Callers, p \in Providers :
        ( /\ worker[c][p].pc = "stalled"
          /\ rmap[c][p] # <<>>
          /\ rmap[c][p][1].status = TIMEOUT
          /\ OthersSettled(c, p)
          /\ \E q \in Dispatched(req[c].cfg) \ {p} : rmap[c][q][1].results # <<>> )
        => ENABLED Finish(c)

\* caller c, holding the response of a call that went to the providers with
\* caching on, calls again with the same key and caching on, before
\* timestamp + ttl
SecondCall(c) ==
    /\ Returned(c)
    /\ ~Held(c).cached
    /\ DOMAIN Held(c).providers # {}
    /\ now' = now
    /\ pc'[c] # "raised"
    /\ <<req'[c], ret'[c], pc'[c], worker'[c]>> # <<req[c], ret[c], pc[c], worker[c]>>
         \/ heap' # heap
    /\ req[c].cfg.enable_cache
    /\ req'[c].cfg.enable_cache
    /\ req'[c].key = req[c].key
    /\ now < Held(c).timestamp + req[c].cfg.cache_ttl_seconds

\* the call is served from the cache: no provider is dispatched, the response
\* is marked cached and has the results of the first
ServedFromCache(c) ==
    /\ pc'[c] = "done"
    /\ \A p \in Providers : worker'[c][p].pc = "none"
    /\ ret'[c] # 0
    /\ heap'[ret'[c]] # <<>>
    /\ heap'[ret'[c]][1].cached
    /\ heap'[ret'[c]][1].results = Held(c).results

\* C10 as claimed: of two calls with the same key within the TTL, the second
\* is served from the cache.
C10_SecondCallCached ==
    [][\A c \in Callers : SecondCall(c) => ServedFromCache(c)]_vars

\* C10, for a first call that returned at least one result: of two calls with
\* the same key and caching on, the second made before timestamp + ttl of the
\* first, the second is served from the cache, marked cached, with the results
\* of the first, and no provider is dispatched.
C10_SecondCallCachedIfResults ==
    [][\A c \in Callers :
          (SecondCall(c) /\ Held(c).results # <<>>) => ServedFromCache(c)]_vars

\* a response with results has been served from the cache
C10_Witness ==
    /\ Returned("c1")
    /\ Held("c1").cached
    /\ Held("c1").results # <<>>
    /\ now < Held("c1").timestamp + req["c1"].cfg.cache_ttl_seconds

----------------------------------------------------------------------------
(* Claims about the breakers *)

\* the provider function of c's call to p begins: can_execute() is called
GateStep(c, p) == Queued(c, p) /\ worker'[c][p].pc # "queued"

\* it returns the circuit-open dict without calling the client
ShortCircuited(c, p) ==
    /\ worker'[c][p].pc = "done"
    /\ worker'[c][p].result.status = DISABLED
    /\ worker'[c][p].result.error = "Circuit breaker open - too many recent failures"
    /\ ~worker'[c][p].invoked

\* now - openedAt
SinceOpened(p) == now - breaker[p].last_failure_time

\* C5: after failure_threshold client calls in a row have raised, the next call
\* to the provider within the cooldown returns the circuit-open dict and the
\* client is not called.
C5_TripsAfterThreshold ==
    [][\A c \in Callers, p \in Providers :
          ( /\ GateStep(c, p)
            /\ streak[p] >= failure_threshold
            /\ SinceOpened(p) < cooldown_seconds )
          => ShortCircuited(c, p)]_vars

\* a call has been short-circuited right after failure_threshold failures in a row
C5_Witness ==
    \E p \in Providers :
        /\ worker["c1"][p].pc = "done"
        /\ worker["c1"][p].result.error = "Circuit breaker open - too many recent failures"
        /\ ~worker["c1"][p].invoked
        /\ streak[p] = failure_threshold
        /\ SinceOpened(p) < cooldown_seconds

\* C6: a call to an open breaker goes through, and leaves it half-open, when
\* now - openedAt >= cooldown; it is short-circuited, and leaves it open, when
\* now - openedAt < cooldown.
C6_OpenUntilCooldown ==
    [][\A c \in Callers, p \in Providers :
          (GateStep(c, p) /\ breaker[p].state = "open")
          => IF SinceOpened(p) >= cooldown_seconds
             THEN ~ShortCircuited(c, p) /\ breaker'[p].state = "half-open"
             ELSE ShortCircuited(c, p) /\ breaker'[p].state = "open"]_vars

\* the client's answer to c's call to p arrives: record_success() or record_failure()
RecordStep(c, p) == worker[c][p].pc = "running" /\ worker'[c][p].pc = "done"

\* C8: a success recorded while half-open gives failure_count 0 and closed; a
\* failure recorded while half-open gives open with last_failure_time now.
C8_HalfOpenTrial ==
    [][\A c \in Callers, p \in Providers :
          (RecordStep(c, p) /\ breaker[p].state = "half-open")
          => IF worker'[c][p].result.status = OK
             THEN breaker'[p].failure_count = 0 /\ breaker'[p].state = "closed"
             ELSE breaker'[p].state = "open" /\ breaker'[p].last_failure_time = now]_vars

\* a trial call has failed: the breaker is open again, one failure past the threshold
C8_Witness ==
    \E p \in Providers :
        /\ breaker[p].state = "open"
        /\ breaker[p].failure_count = failure_threshold + 1
        /\ breaker[p].last_failure_time = now
        /\ now > 0

\* C9: a breaker that is open has failure_count >= failure_threshold.
C9_OpenHasThreshold ==
    \A p \in Providers :
        breaker[p].state = "open" => breaker[p].failure_count >= failure_threshold

\* a failure has been recorded on a breaker that was open already
C9_Witness ==
    \E p \in Providers :
        breaker[p].state = "open" /\ breaker[p].failure_count = failure_threshold + 1

\* C7: a call that comes to a half-open breaker while another call to the
\* provider is in flight (let through, nothing recorded yet) is short-circuited.
C7_OneTrialInFlight ==
    [][\A c \in Callers, p \in Providers :
          ( /\ GateStep(c, p)
            /\ breaker[p].state = "half-open"
            /\ \E d \in Callers \ {c} : worker[d][p].pc \in {"running", "recording"} )
          => ShortCircuited(c, p)]_vars

----------------------------------------------------------------------------
(* Claims about the merge *)

\* search_dual returns to c from a call that went to the providers
FinishStep(c) == pc[c] = "join" /\ pc'[c] = "done"

\* what the call returns
Out(c) == heap'[ret'[c]][1]

\* the entries the providers that are OK returned
Returned_results(c) == AllResults(rmap[c], providers_to_run(req[c].cfg), 1)

HasUrl(results) == \E i \in 1..Len(results) : NormUrl(results[i].url) # <<>>

\* an entry but for its rank
Entry(r) == [url |-> r.url, snippet |-> r.snippet, score |-> r.score,
             source_engine |-> r.source_engine]

\* the same entries, in whatever order and with whatever ranks
SameEntries(a, b) ==
    /\ Len(a) = Len(b)
    /\ { Entry(a[i]) : i \in 1..Len(a) } = { Entry(b[i]) : i \in 1..Len(b) }

\* C3: when one dispatched provider is OK with results (one at least with a
\* URL) and every other dispatched provider is not OK, the results returned are
\* not empty, are that provider's deduplicated results, and the providers map
\* gives every other provider the status it ended with, which is not OK.
C3_GracefulDegradation ==
    [][\A c \in Callers : FinishStep(c) =>
          \A p \in Dispatched(req[c].cfg) :
              ( /\ rmap[c][p][1].status = OK
                /\ HasUrl(rmap[c][p][1].results)
                /\ \A q \in Dispatched(req[c].cfg) \ {p} : rmap[c][q][1].status # OK )
              => /\ Out(c).results # <<>>
                 /\ SameEntries(Out(c).results, _deduplicate_results(rmap[c][p][1].results))
                 /\ \A q \in Dispatched(req[c].cfg) \ {p} :
                       /\ Out(c).providers[q].status = rmap[c][q][1].status
                       /\ Out(c).providers[q].status \in {FAILED, TIMEOUT, DISABLED}]_vars

\* C4: for every non-empty normalized URL among the entries the OK providers
\* returned, the results hold exactly one entry with that normalized URL, and
\* its score is the highest of the returned entries that share it.
C4_OneEntryPerUrl ==
    [][\A c \in Callers : FinishStep(c) =>
          LET all == Returned_results(c)
              out == Out(c).results
          IN  \A i \in 1..Len(all) :
                  NormUrl(all[i].url) # <<>> =>
                  LET same == { j \in 1..Len(out) : NormUrl(out[j].url) = NormUrl(all[i].url) }
                  IN  /\ Cardinality(same) = 1
                      /\ \A j \in same, k \in 1..Len(all) :
                            NormUrl(all[k].url) = NormUrl(all[i].url)
                            => out[j].score >= all[k].score]_vars

----------------------------------------------------------------------------
(* Claims about the cache *)

\* caller c enters search_dual: the step of a caller that had no call running
CallStep(c) ==
    /\ CanStart(c)
    /\ now' = now
    /\ <<pc'[c], req'[c], ret'[c], worker'[c]>> # <<pc[c], req[c], ret[c], worker[c]>>
         \/ heap' # heap
         \/ cache' # cache

\* the call is made with caching on and a valid type, and the cache holds an
\* unexpired entry for its key
HitStep(c) ==
    /\ CallStep(c)
    /\ req'[c].cfg.enable_cache
    /\ req'[c].key[2] \in SearchTypes
    /\ CacheHit(cache, req'[c].key, now)

\* C11: a call that hits the cache dispatches no provider, returns the stored
\* response marked cached, and leaves both breakers as they were, whatever
\* their state.
C11_HitTouchesNothing ==
    [][\A c \in Callers : HitStep(c) =>
          /\ breaker' = breaker
          /\ streak' = streak
          /\ \A p \in Providers : worker'[c][p].pc = "none"
          /\ pc'[c] = "done"
          /\ ret'[c] = cache[req'[c].key][1].data
          /\ heap'[ret'[c]] # <<>>
          /\ heap'[ret'[c]][1].cached
          /\ heap'[ret'[c]][1].results = heap[ret'[c]][1].results]_vars

\* a response has been served from the cache while a breaker is open
C11_Witness ==
    /\ Returned("c1")
    /\ Held("c1").cached
    /\ \E p \in Providers : breaker[p].state = "open"

\* the call is made with caching on and a valid type, and the cache holds an
\* entry for its key whose expiry time has been reached
ExpiredStep(c) ==
    /\ CallStep(c)
    /\ req'[c].cfg.enable_cache
    /\ req'[c].key[2] \in SearchTypes
    /\ cache[req'[c].key] # <<>>
    /\ cache[req'[c].key][1].expires <= now

\* C12: a call that finds an entry whose expiry time has been reached is not
\* served from it: the entry is removed and the call goes on as a miss, every
\* enabled provider being dispatched.
C12_ExpiredEntryIsAMiss ==
    [][\A c \in Callers : ExpiredStep(c) =>
          /\ cache'[req'[c].key] = <<>>
          /\ IF providers_to_run(req'[c].cfg) = <<>>
             THEN /\ pc'[c] = "done"
                  /\ ~heap'[ret'[c]][1].cached
                  /\ heap'[ret'[c]][1].error = "No search providers enabled"
             ELSE /\ pc'[c] = "wait"
                  /\ ret'[c] = 0
                  /\ \A p \in Dispatched(req'[c].cfg) : worker'[c][p].pc = "queued"]_vars

\* the response a call stored is still in the cache at the instant it expires,
\* and the thread that holds it is free to call again
C12_Witness ==
    /\ Returned("c1")
    /\ req["c1"].cfg.enable_cache
    /\ cache[req["c1"].key] # <<>>
    /\ cache[req["c1"].key][1].data = ret["c1"]
    /\ cache[req["c1"].key][1].expires = now

\* search_dual returns to c from a call that missed the cache and found no
\* provider enabled
NoProvidersStep(c) ==
    /\ CallStep(c)
    /\ pc'[c] = "done"
    /\ ~heap'[ret'[c]][1].cached

\* C13: a call that missed the cache and returns an empty result list stores
\* no entry; one that returns results with caching on stores its response
\* under its key, to expire cache_ttl_seconds later.
C13_OnlyResultsAreStored ==
    [][\A c \in Callers :
          /\ NoProvidersStep(c) =>
                \A k \in Keys : cache'[k] = cache[k] \/ cache'[k] = <<>>
          /\ FinishStep(c) =>
                IF Out(c).results = <<>> \/ ~req[c].cfg.enable_cache
                THEN cache' = cache
                ELSE /\ cache'[req[c].key] =
                          <<[data |-> ret'[c], expires |-> now + req[c].cfg.cache_ttl_seconds]>>
                     /\ \A k \in Keys \ {req[c].key} : cache'[k] = cache[k]]_vars

\* a call with caching on, every provider of which failed, has returned and
\* the cache holds nothing for its key
C13_Witness ==
    /\ Returned("c1")
    /\ ~Held("c1").cached
    /\ req["c1"].cfg.enable_cache
    /\ DOMAIN Held("c1").providers = Providers
    /\ NoneOk(Held("c1"))
    /\ Held("c1").results = <<>>
    /\ cache[req["c1"].key] = <<>>

----------------------------------------------------------------------------
(* Claims about the arguments *)

\* C14: a call with num_results <= 0, made with a provider enabled, raises to
\* the caller, and dispatches no provider and touches neither the cache nor a
\* breaker.
C14_RejectsOutOfRange ==
    [][\A c \in Callers :
          (CallStep(c) /\ req'[c].key[3] <= 0 /\ providers_to_run(req'[c].cfg) # <<>>) =>
              /\ pc'[c] = "raised"
              /\ \A p \in Providers : worker'[c][p].pc = "none"
              /\ cache' = cache
              /\ breaker' = breaker]_vars

----------------------------------------------------------------------------
(* Claims about the deadlines *)

\* C15: a provider call that has not completed timeout_seconds after its
\* dispatch is reported as timeout, however long the other provider took: here
\* every call is dispatched at instant 0 and DuckDuckGo completes after instant
\* timeout_seconds, so every response reports DuckDuckGo as timeout.
C15_DeadlineFromDispatch ==
    \A c \in Callers :
        (Returned(c) /\ "duckduckgo" \in DOMAIN Held(c).providers)
        => Held(c).providers["duckduckgo"].status = TIMEOUT

----------------------------------------------------------------------------
(* Claims about the order of the merge *)

\* what the provider function of p returned to the pool in c's call
ListOf(c, p) == worker[c][p].result.results

\* C16: whichever provider function returned first, the results of a call are
\* those of the merge of the list Tavily returned followed by the list
\* DuckDuckGo returned: order, ranks and content.
C16_MergeIgnoresCompletionOrder ==
    [][\A c \in Callers :
          (FinishStep(c) /\ Dispatched(req[c].cfg) = Providers) =>
              Out(c).results =
                  _rank_results(_deduplicate_results(
                      ListOf(c, "tavily") \o ListOf(c, "duckduckgo")))]_vars

\* DuckDuckGo has returned two results while Tavily's client is still being
\* called and the caller waits for Tavily's future
C16_Witness ==
    /\ pc["c1"] = "wait"
    /\ Current("c1") = "tavily"
    /\ worker["c1"]["tavily"].pc = "running"
    /\ worker["c1"]["duckduckgo"].pc = "done"
    /\ Len(ListOf("c1", "duckduckgo")) = 2

----------------------------------------------------------------------------
(* Claims about concurrent searches *)

\* C17: the breaker's methods take effect one at a time: after N client calls
\* have raised with no success in between, failure_count has risen by N, that
\* is, failure_count is the number of failures recorded since the last success.
C17_FailuresCountedOnce ==
    \A p \in Providers : breaker[p].failure_count = streak[p]

\* C18: with several threads searching, no get and no set raises or blocks
\* for ever: no call is left waiting for the cache's lock with nobody to wake
\* it, and a call with a valid search type does not raise.
C18_CacheCallsComplete ==
    \A c \in Callers :
        /\ pc[c] # "blocked"
        /\ pc[c] = "raised" => req[c].key[2] \notin SearchTypes

----------------------------------------------------------------------------
(* Claims about the status entries *)

\* why c's call did not get results from p, told from what happened and not
\* from the entry: the wait timed out (results_map holds a dict the provider
\* function did not return), the client was called and raised, the breaker
\* refused the call, or the key was missing
Cause(c, p) ==
    IF rmap[c][p][1] # worker[c][p].result THEN "timeout"
    ELSE IF worker[c][p].invoked THEN "transport"
    ELSE IF breaker[p].state = "open" THEN "open"
    ELSE "configuration"

\* C19: in the response of a call, the entry of a provider that is not OK
\* tells the cause: status timeout for a timeout, status failed for a client
\* that raised, status disabled with the breaker's error text for an open
\* breaker, status disabled with the key's error text for a missing key; no two
\* of these entries are the same.
C19_CauseIsTold ==
    [][\A c \in Callers : FinishStep(c) =>
          \A p \in Dispatched(req[c].cfg) :
              rmap[c][p][1].status # OK =>
              LET e == Out(c).providers[p]
              IN  CASE Cause(c, p) = "timeout" -> e.status = TIMEOUT
                    [] Cause(c, p) = "transport" -> e.status = FAILED
                    [] Cause(c, p) = "open" ->
                          /\ e.status = DISABLED
                          /\ e.error = "Circuit breaker open - too many recent failures"
                    [] Cause(c, p) = "configuration" ->
                          /\ e.status = DISABLED
                          /\ e.error = "TAVILY_API_KEY not set"]_vars

\* a response reports Tavily without its key and DuckDuckGo behind its open breaker
C19_Witness ==
    /\ Returned("c1")
    /\ ~Held("c1").cached
    /\ DOMAIN Held("c1").providers = Providers
    /\ Held("c1").providers["tavily"].error = "TAVILY_API_KEY not set"
    /\ Held("c1").providers["duckduckgo"].error = "Circuit breaker open - too many recent failures"
    /\ breaker["duckduckgo"].state = "open"

----------------------------------------------------------------------------
(* Claims about the ranks *)

\* C20: in every response a caller holds, served from the cache or not, the
\* ranks of the results are 1, 2, ..., n in list order and total_found is n.
C20_RanksArePositions ==
    \A c \in Callers :
        Returned(c) =>
            /\ \A i \in 1..Len(Held(c).results) : Held(c).results[i].rank = i
            /\ Held(c).total_found = Len(Held(c).results)

\* a response served from the cache whose first result was the second of
\* DuckDuckGo's list
C20_Witness ==
    /\ Returned("c1")
    /\ Held("c1").cached
    /\ Held("c1").results # <<>>
    /\ Held("c1").results[1].url = <<"b">>
    /\ Held("c1").results[1].rank = 1

----------------------------------------------------------------------------
(* Claims about the URLs of the results *)

\* C21: in every response a caller holds, no two entries of results have the
\* same normalized URL (trailing slashes trimmed, lowercased), whatever lists
\* the providers returned.
C21_ResultsUrlUnique ==
    \A c \in Callers :
        Returned(c) =>
            \A i, j \in 1..Len(Held(c).results) :
                i # j => NormUrl(Held(c).results[i].url) # NormUrl(Held(c).results[j].url)

\* both providers returned two entries and the results hold one of each: the
\* entry Tavily gave as "A/" and the one DuckDuckGo gave as "b"
C21_Witness ==
    /\ Returned("c1")
    /\ DOMAIN Held("c1").providers = Providers
    /\ \A p \in Providers : Held("c1").providers[p].results_count = 2
    /\ Len(Held("c1").results) = 2
    /\ Held("c1").results[1].url = <<"A", "/">>
    /\ Held("c1").results[2].url = <<"b">>

----------------------------------------------------------------------------
(* Claims about the Tavily key *)

----------------------------------------------------------------------------
(* Claims about the merge of duplicate entries *)

\* deduplicated: what _deduplicate_results makes of all_results in c's call
Deduplicated(c) == _deduplicate_results(Returned_results(c))

\* C23: when both providers are OK and each returned an entry with the same
\* non-empty normalized URL, the one entry of the deduplicated list with that
\* URL has a source_engine that names both providers, whichever of the entries
\* has the higher score.
C23_SourcesConcatenated ==
    [][\A c \in Callers :
          ( /\ FinishStep(c)
            /\ Dispatched(req[c].cfg) = Providers
            /\ \A p \in Providers : rmap[c][p][1].status = OK )
          => LET tav == rmap[c]["tavily"][1].results
                 ddg == rmap[c]["duckduckgo"][1].results
                 d == Deduplicated(c)
             IN  \A i \in 1..Len(tav), k \in 1..Len(ddg) :
                     ( /\ NormUrl(tav[i].url) # <<>>
                       /\ NormUrl(tav[i].url) = NormUrl(ddg[k].url) )
                     => \E j \in 1..Len(d) :
                            /\ NormUrl(d[j].url) = NormUrl(tav[i].url)
                            /\ \A p \in Providers :
                                  \E n \in 1..Len(d[j].source_engine) :
                                      d[j].source_engine[n] = p]_vars

\* C24: when an entry the OK providers returned has a non-empty snippet, the
\* entry of the deduplicated list with its normalized URL has a non-empty
\* snippet: its own, or one filled in from a duplicate, whichever of the
\* duplicates has the higher score.
C24_SnippetBackfilled ==
    [][\A c \in Callers : FinishStep(c) =>
          LET all == Returned_results(c)
              d == Deduplicated(c)
          IN  \A i \in 1..Len(all) :
                  (NormUrl(all[i].url) # <<>> /\ all[i].snippet # "") =>
                  \A j \in 1..Len(d) :
                      NormUrl(d[j].url) = NormUrl(all[i].url) => d[j].snippet # ""]_vars

----------------------------------------------------------------------------
(* Claims about the ranking *)

\* C25: the results of a call are a permutation of the deduplicated list, every
\* entry of it appearing once; entries of one provider are in descending order
\* of score; and as long as both providers have entries left, the list takes
\* one of Tavily, then one of DuckDuckGo, in turn.
C25_RankIsPermutation ==
    [][\A c \in Callers : FinishStep(c) =>
          LET d == Deduplicated(c)
              out == Out(c).results
              of(p) == { i \in 1..Len(out) : out[i].source_engine = <<p>> }
              both == IF Cardinality(of("tavily")) < Cardinality(of("duckduckgo"))
                      THEN Cardinality(of("tavily")) ELSE Cardinality(of("duckduckgo"))
          IN  /\ SameEntries(out, d)
              /\ \A p \in Providers : \A i, j \in of(p) :
                    i < j => out[i].score >= out[j].score
              /\ \A i \in 1..(2 * both) :
                    out[i].source_engine = IF i % 2 = 1 THEN <<"tavily">> ELSE <<"duckduckgo">>]_vars

----------------------------------------------------------------------------
(* Claims about repeated timeouts *)

\* C26: a provider reported as timeout by failure_threshold searches in a row
\* has its breaker open, and the next search short-circuits it.  Here every
\* search reports both providers as timeout and lasts 2 * timeout_seconds, so
\* a search dispatched at instant failure_threshold * 2 * timeout_seconds or
\* later (its first wait began then) follows failure_threshold such searches:
\* its provider calls return the circuit-open dict and no client is called.
C26_TimeoutsTripBreaker ==
    [][\A c \in Callers, p \in Providers :
          ( /\ GateStep(c, p)
            /\ widx[c] = 1
            /\ wstart[c] >= failure_threshold * 2 * timeout_seconds )
          => ShortCircuited(c, p)]_vars

----------------------------------------------------------------------------
(* Claims about the two breakers *)

\* a step of the provider function of c's call to p: the gate, the key check,
\* the client's call, its return or its exception
ProviderStep(c, p) == worker'[c][p] # worker[c][p] /\ pc' = pc

\* C27: no step of a call to one provider (short-circuit, missing key, client
\* called, success, failure) changes the other provider's breaker: its state,
\* failure_count and last_failure_time stay as they were.
C27_OtherBreakerUntouched ==
    [][\A c \in Callers, p \in Providers :
          ProviderStep(c, p) => \A q \in Providers \ {p} : breaker'[q] = breaker[q]]_vars

\* Tavily's breaker has opened on its failures while DuckDuckGo, called by the
\* same searches and answering, has a breaker as new
C27_Witness ==
    /\ Returned("c1")
    /\ ~Held("c1").cached
    /\ DOMAIN Held("c1").providers = Providers
    /\ Held("c1").providers["tavily"].status = FAILED
    /\ Held("c1").providers["duckduckgo"].status = OK
    /\ breaker["tavily"].state = "open"
    /\ breaker["duckduckgo"] = NewBreaker

\* C28: a success recorded while the breaker is closed leaves failure_count 0
\* and the breaker closed; and, one thread searching, a breaker opens only on a
\* failure that is at least the failure_threshold-th since the last success:
\* the failures before a success do not count towards it.
C28_SuccessResetsCount ==
    [][\A c \in Callers, p \in Providers :
          /\ ( /\ RecordStep(c, p)
               /\ breaker[p].state = "closed"
               /\ worker'[c][p].result.status = OK )
             => breaker'[p].failure_count = 0 /\ breaker'[p].state = "closed"
          /\ (breaker[p].state # "open" /\ breaker'[p].state = "open")
             => streak'[p] >= failure_threshold]_vars

\* a success has been recorded on a closed breaker that had failures: no time
\* has passed since the failure, so the breaker was not half-open
C28_Witness ==
    \E p \in Providers :
        /\ now = 0
        /\ worker["c1"][p].pc = "done"
        /\ worker["c1"][p].result.status = OK
        /\ breaker[p] = [failure_count |-> 0, last_failure_time |-> 0, state |-> "closed"]

\* C29: as long as a breaker stays open its last_failure_time stays what it
\* was when it opened: no step that finds it open and leaves it open, be it a
\* short-circuited call or the failure of a call that was in flight when it
\* opened, changes it.
C29_OpenKeepsOpenedAt ==
    [][\A p \in Providers :
          (breaker[p].state = "open" /\ breaker'[p].state = "open")
          => breaker'[p].last_failure_time = breaker[p].last_failure_time]_vars

----------------------------------------------------------------------------
(* Claims about the responses the callers hold *)

\* C30: the response a call returned on a cache miss (cached false) is not
\* changed by the later calls of others: no step of another caller changes any
\* field of the object the caller holds.
C30_ReturnedResponseIsFrozen ==
    [][\A c \in Callers :
          ( /\ Returned(c)
            /\ ~Held(c).cached
            /\ \E d \in Callers \ {c} : pc'[d] # pc[d] )
          => ret'[c] = ret[c] /\ heap'[ret[c]] = heap[ret[c]]]_vars

====
